---- MODULE Spec2Model ----
(***************************************************************************)
(* Model of src/main.rs: the medal-table poller.                           *)
(*                                                                         *)
(*   main          loop { fetch_medals().unwrap(); create_table; take(5);  *)
(*                        compare with last_top5; println; store; sleep }  *)
(*   fetch_medals  turns the JSON awards of the response into Vec<Medal>   *)
(*   create_table  groups by country (HashMap), counts per medal type,     *)
(*                 sort_by_key (stable, ascending) and reverses            *)
(***************************************************************************)
EXTENDS Integers, Sequences, FiniteSets, TLC

VARIABLES
    pc,          \* position of main: "fetch", "table", "top5", "compare",
                 \* "emit", "store", "sleep", "panicked"
    response,    \* the awards of the JSON document fetched in this cycle
    medals,      \* main's local `medals`
    table,       \* main's local `table`
    top5,        \* main's local `top5` (an Option)
    last_top5,   \* main's `last_top5` (an Option), the only state kept across cycles
    out,         \* what this cycle has printed to stdout
    err,         \* why the process panicked, "none" while it runs
    prev_table,  \* history: the table of the last cycle that ran to its end (an Option)
    stop,        \* environment: the poller has been asked to stop
    projection   \* tests: the Projection of get_medals_per_country

vars == <<pc, response, medals, table, top5, last_top5, out, err, prev_table,
          stop, projection>>

----------------------------------------------------------------------------
(* Bounds of the model *)

\* longest award list drawn freely (every order, every duplicate) per fetch
MaxLen == 2

(* Program constants *)

\* table.iter().take(5)
TopN == 5

----------------------------------------------------------------------------
(* Option<T>: None and Some(x) *)

None == <<>>
Some(x) == <<x>>

----------------------------------------------------------------------------
(* The feed: what the remote JSON document can hold *)

Countries == {"A", "B"}

\* the strings fetch_medals recognises as award["medalType"]
MedalTypes == {"GOLD", "SILVER", "BRONZE"}

\* a JSON value that is absent, null or not of the expected shape
Null == "null"

\* an award whose participant has a countryObject with a name
AwardOfCountry(mt, c) == [medalType |-> mt, countryObject |-> c, title |-> Null]

\* an award whose participant has no countryObject, only a title
AwardOfTitle(mt, t) == [medalType |-> mt, countryObject |-> Null, title |-> t]

WellFormedAwards == {AwardOfCountry(mt, c) : mt \in MedalTypes, c \in Countries}
                        \cup {AwardOfTitle("GOLD", "A")}

\* an unrecognized medal class, and a participant without any name
MalformedAwards == {AwardOfCountry("PLATINUM", "A"), AwardOfTitle("GOLD", Null)}

RawAwards == WellFormedAwards \cup MalformedAwards

SeqsUpTo(S, n) == UNION {[1..k -> S] : k \in 0..n}

\* a competition as it unfolds: six entrants, ties at the top, in the middle and
\* at the boundary of the first five, then a medal that changes only a count
Season ==
    << AwardOfCountry("GOLD", "C"),   AwardOfCountry("GOLD", "D"),
       AwardOfCountry("SILVER", "E"), AwardOfCountry("SILVER", "F"),
       AwardOfCountry("BRONZE", "A"), AwardOfCountry("BRONZE", "B"),
       AwardOfCountry("GOLD", "C") >>

SeasonFeeds == {SubSeq(Season, 1, n) : n \in (TopN - 1)..Len(Season)}

\* the documents a fetch can return
RawFeeds == SeqsUpTo(RawAwards, MaxLen) \cup SeasonFeeds

----------------------------------------------------------------------------
(* fetch_medals *)

\* match award["medalType"].as_str().unwrap() { "GOLD" => Type::Gold, ... }
TypeOf(mt) ==
    CASE mt = "GOLD" -> "Gold"
      [] mt = "SILVER" -> "Silver"
      [] mt = "BRONZE" -> "Bronze"

\* the participant's country name: countryObject.name if there is a
\* countryObject, the title otherwise
CountryOf(award) ==
    IF award.countryObject = Null THEN award.title ELSE award.countryObject

\* the award makes fetch_medals panic: `_ => panic!()` or an unwrap of None
Panics(award) == award.medalType \notin MedalTypes \/ CountryOf(award) = Null

Medal(award) == [type |-> TypeOf(award.medalType), country |-> CountryOf(award)]

\* the loop of fetch_medals over a document none of whose awards panics
fetch_medals(raw) == [i \in 1..Len(raw) |-> Medal(raw[i])]

----------------------------------------------------------------------------
(* create_table *)

\* the keys of by_country
Keys(ms) == {ms[i].country : i \in 1..Len(ms)}

\* by_country[c]: the medals of c, in input order
by_country(ms, c) == SelectSeq(ms, LAMBDA m : m.country = c)

\* mutant: the medals are collected into a set before they are counted, so a
\* repeated award counts once
CountType_Distinct(country_medals, t) ==
    Cardinality({country_medals[i] : i \in {j \in 1..Len(country_medals) : country_medals[j].type = t}})

\* country_medals.iter().filter(|x| x.type == t).count()
CountType(country_medals, t) == Len(SelectSeq(country_medals, LAMBDA m : m.type = t))

RECURSIVE Perms(_)
\* the orders in which by_country.into_iter() can yield the keys: std's HashMap
\* is seeded at random, per map, so any order of the keys can come out
Perms(S) ==
    IF S = {} THEN {<<>>}
    ELSE UNION {{<<x>> \o p : p \in Perms(S \ {x})} : x \in S}

\* the vector `countries` before it is sorted, for an iteration order of the map
Collect(ms, order) ==
    [i \in 1..Len(order) |->
        << order[i],
           CountType(by_country(ms, order[i]), "Gold"),
           CountType(by_country(ms, order[i]), "Silver"),
           CountType(by_country(ms, order[i]), "Bronze") >>]

\* mutant: the key is taken in the reverse order, bronze first
SortKey_BronzeFirst(elem) == <<elem[4], elem[3], elem[2]>>

\* the sort key |elem| (elem.1, elem.2, elem.3)
SortKey(elem) == <<elem[2], elem[3], elem[4]>>

\* Ord of tuples of usize: lexicographic
KeyLess(k1, k2) ==
    \/ k1[1] < k2[1]
    \/ k1[1] = k2[1] /\ k1[2] < k2[2]
    \/ k1[1] = k2[1] /\ k1[2] = k2[2] /\ k1[3] < k2[3]

RECURSIVE InsertStable(_, _)
\* e put into the ascending sequence s, behind every element whose key is not greater
\* (the arguments are bound once, as values, before the body reads them)
InsertStable(s0, e0) ==
    CHOOSE r \in
        { IF s = <<>> THEN <<e>>
          ELSE IF KeyLess(SortKey(e), SortKey(s[Len(s)]))
               THEN Append(InsertStable(SubSeq(s, 1, Len(s) - 1), e), s[Len(s)])
               ELSE Append(s, e)
          : s \in {s0}, e \in {e0} } : TRUE

RECURSIVE sort_by_key(_)
\* slice::sort_by_key: ascending by key, stable (equal keys keep their order)
\* (the argument is bound once, as a value, before the body reads it)
sort_by_key(s0) ==
    CHOOSE r \in
        { IF s = <<>> THEN <<>>
          ELSE InsertStable(sort_by_key(SubSeq(s, 1, Len(s) - 1)), s[Len(s)])
          : s \in {s0} } : TRUE

\* mutant: the sorted vector is returned without being reversed
Rev_Forgotten(s) == s

\* into_iter().rev().collect()
Rev(s) == [i \in 1..Len(s) |-> s[Len(s) + 1 - i]]

\* mutant: the ranker itself keeps only the first five
create_table_Truncating(ms, order) ==
    SubSeq(Rev(sort_by_key(Collect(ms, order))), 1,
           IF Len(order) < TopN THEN Len(order) ELSE TopN)

\* create_table for one iteration order of by_country
create_table(ms, order) == Rev(sort_by_key(Collect(ms, order)))

----------------------------------------------------------------------------
(* main *)

\* mutant: the loop starts from an empty snapshot instead of None
InitialLastTop5_Empty == Some(<<>>)

\* let mut last_top5 = None
InitialLastTop5 == None

\* mutant: an entrant is listed only while it holds a gold medal, so the
\* snapshot depends on the counts
TakeNames_GoldOnly(t) ==
    LET first == SubSeq(t, 1, IF Len(t) < TopN THEN Len(t) ELSE TopN)
        gold == SelectSeq(first, LAMBDA e : e[2] > 0)
    IN  [i \in 1..Len(gold) |-> gold[i][1]]

\* mutant: the take(5) is missing
TakeNames_All(t) == [i \in 1..Len(t) |-> t[i][1]]

\* table.iter().take(5).map(|e| e.0.clone()).collect()
TakeNames(t) == [i \in 1..(IF Len(t) < TopN THEN Len(t) ELSE TopN) |-> t[i][1]]

\* mutant: the snapshots are compared as sets of names, whatever their order
Changed_Unordered(cur, last) ==
    \/ last = None
    \/ {cur[1][i] : i \in 1..Len(cur[1])} # {last[1][i] : i \in 1..Len(last[1])}

\* top5 != last_top5
Changed(cur, last) == cur # last

Init ==
    /\ pc = "fetch"
    /\ response = <<>>
    /\ medals = <<>>
    /\ table = <<>>
    /\ top5 = None
    /\ last_top5 = InitialLastTop5
    /\ out = <<>>
    /\ err = "none"
    /\ prev_table = None
    /\ stop = FALSE
    /\ projection = <<>>

\* fetch_medals() returns Ok(medals), the document being one of `feeds`
FetchOkFrom(feeds) ==
    /\ pc = "fetch"
    /\ \E raw \in feeds :
        /\ \A i \in 1..Len(raw) : ~Panics(raw[i])
        /\ response' = raw
        /\ medals' = fetch_medals(raw)
    /\ pc' = "table"
    /\ UNCHANGED <<table, top5, last_top5, out, err, prev_table, stop, projection>>

\* reqwest::blocking::get(url)?.json()? fails: fetch_medals returns Err and
\* main's unwrap() panics
FetchErr ==
    /\ pc = "fetch"
    /\ pc' = "panicked"
    /\ err' = "SourceUnavailable"
    /\ UNCHANGED <<response, medals, table, top5, last_top5, out, prev_table, stop, projection>>

\* fetch_medals() returns Ok(medals)
FetchOk == FetchOkFrom(RawFeeds)

\* an award of the document, one of `feeds`, makes fetch_medals panic
FetchMalformedFrom(feeds) ==
    /\ pc = "fetch"
    /\ \E raw \in feeds :
        /\ \E i \in 1..Len(raw) : Panics(raw[i])
        /\ response' = raw
    /\ pc' = "panicked"
    /\ err' = "MalformedRecord"
    /\ UNCHANGED <<medals, table, top5, last_top5, out, prev_table, stop, projection>>

\* an award of the document makes fetch_medals panic
FetchMalformed == FetchMalformedFrom(RawFeeds)

\* a call of create_table(&medals) that takes main from `from` to `to`
CreateTableAt(from, to) ==
    /\ pc = from
    /\ \E order \in Perms(Keys(medals)) : table' = create_table(medals, order)
    /\ pc' = to
    /\ UNCHANGED <<response, medals, top5, last_top5, out, err, prev_table, stop, projection>>

\* the count at place k of entrant c in the table t, 0 if c is not in it
CountIn(t, c, k) ==
    IF \E j \in 1..Len(t) : t[j][1] = c
    THEN t[CHOOSE j \in 1..Len(t) : t[j][1] = c][k]
    ELSE 0

\* mutant: by_country outlives the cycle, so the counts of the cycle before
\* are still in it
CreateTable_Accumulate ==
    /\ pc = "table"
    /\ LET prev == IF prev_table = None THEN <<>> ELSE prev_table[1]
           keys == Keys(medals) \cup {prev[j][1] : j \in 1..Len(prev)}
       IN  \E order \in Perms(keys) :
               table' = Rev(sort_by_key(
                   [i \in 1..Len(order) |->
                       << order[i],
                          Collect(medals, order)[i][2] + CountIn(prev, order[i], 2),
                          Collect(medals, order)[i][3] + CountIn(prev, order[i], 3),
                          Collect(medals, order)[i][4] + CountIn(prev, order[i], 4) >>]))
    /\ pc' = "top5"
    /\ UNCHANGED <<response, medals, top5, last_top5, out, err, prev_table, stop, projection>>

\* mutant: create_table reads the first entry of `countries`, and panics when
\* there is none
CreateTable_PanicsOnEmpty ==
    IF medals = <<>>
    THEN /\ pc = "table"
         /\ pc' = "panicked"
         /\ err' = "EmptyTable"
         /\ UNCHANGED <<response, medals, table, top5, last_top5, out, prev_table, stop, projection>>
    ELSE CreateTableAt("table", "top5")

\* let table = create_table(&medals)
CreateTable == CreateTableAt("table", "top5")

\* let top5 = Some(...)
TakeTop5 ==
    /\ pc = "top5"
    /\ top5' = Some(TakeNames(table))
    /\ pc' = "compare"
    /\ UNCHANGED <<response, medals, table, last_top5, out, err, prev_table, stop, projection>>

\* mutant: an unchanged snapshot goes straight to the sleep, past the store
Compare_SkipStore ==
    /\ pc = "compare"
    /\ pc' = IF Changed(top5, last_top5) THEN "emit" ELSE "sleep"
    /\ UNCHANGED <<response, medals, table, top5, last_top5, out, err, prev_table, stop, projection>>

\* if top5 != last_top5
Compare ==
    /\ pc = "compare"
    /\ pc' = IF Changed(top5, last_top5) THEN "emit" ELSE "store"
    /\ UNCHANGED <<response, medals, table, top5, last_top5, out, err, prev_table, stop, projection>>

\* println!("{:#?}", &top5)
Emit ==
    /\ pc = "emit"
    /\ out' = Append(out, top5)
    /\ pc' = "store"
    /\ UNCHANGED <<response, medals, table, top5, last_top5, err, prev_table, stop, projection>>

\* mutant: last_top5.get_or_insert(top5): only the first snapshot is ever stored
Store_GetOrInsert ==
    /\ pc = "store"
    /\ last_top5' = IF last_top5 = None THEN top5 ELSE last_top5
    /\ prev_table' = Some(table)
    /\ pc' = "sleep"
    /\ UNCHANGED <<response, medals, table, top5, out, err, stop, projection>>

\* last_top5 = top5
Store ==
    /\ pc = "store"
    /\ last_top5' = top5
    /\ prev_table' = Some(table)
    /\ pc' = "sleep"
    /\ UNCHANGED <<response, medals, table, top5, out, err, stop, projection>>

\* mutant: the loop body ends in a break
Sleep_Break ==
    /\ pc = "sleep"
    /\ pc' = "exited"
    /\ response' = <<>>
    /\ medals' = <<>>
    /\ table' = <<>>
    /\ top5' = None
    /\ out' = <<>>
    /\ UNCHANGED <<last_top5, err, prev_table, stop, projection>>

\* thread::sleep, then the end of the loop body: its locals go out of scope
Sleep ==
    /\ pc = "sleep"
    /\ pc' = "fetch"
    /\ response' = <<>>
    /\ medals' = <<>>
    /\ table' = <<>>
    /\ top5' = None
    /\ out' = <<>>
    /\ UNCHANGED <<last_top5, err, prev_table, stop, projection>>

Next ==
    \/ FetchOk
    \/ FetchErr
    \/ FetchMalformed
    \/ CreateTable
    \/ TakeTop5
    \/ Compare
    \/ Emit
    \/ Store
    \/ Sleep

Spec == Init /\ [][Next]_vars

\* main is one thread that nothing preempts for good: a statement that can
\* run does run (a fetch returns, a sleep of two seconds ends)
\* longest award list drawn freely per fetch where progress is checked
MaxLiveLen == 1

LiveFeeds == SeqsUpTo(RawAwards, MaxLiveLen) \cup SeasonFeeds

NextLive ==
    \/ FetchOkFrom(LiveFeeds)
    \/ FetchErr
    \/ FetchMalformedFrom(LiveFeeds)
    \/ CreateTable
    \/ TakeTop5
    \/ Compare
    \/ Emit
    \/ Store
    \/ Sleep

SpecLive == Init /\ [][NextLive]_vars /\ WF_vars(NextLive)

----------------------------------------------------------------------------
(* The poller while its environment may ask it to stop *)

\* somebody asks the poller to stop; no statement of main reads the request
RequestStop ==
    /\ ~stop
    /\ stop' = TRUE
    /\ UNCHANGED <<pc, response, medals, table, top5, last_top5, out, err, prev_table, projection>>

NextStop ==
    \/ Next
    \/ RequestStop

SpecStop == Init /\ [][NextStop]_vars

----------------------------------------------------------------------------
(* The poller against a feed that does not change: `response` is the         *)
(* document the source serves, the same at every fetch                       *)

InitUnchanged ==
    /\ pc = "fetch"
    /\ response \in {raw \in RawFeeds : \A i \in 1..Len(raw) : ~Panics(raw[i])}
    /\ medals = <<>>
    /\ table = <<>>
    /\ top5 = None
    /\ last_top5 = InitialLastTop5
    /\ out = <<>>
    /\ err = "none"
    /\ prev_table = None
    /\ stop = FALSE
    /\ projection = <<>>

\* fetch_medals() returns Ok(medals), from the same document as before
FetchUnchanged ==
    /\ pc = "fetch"
    /\ medals' = fetch_medals(response)
    /\ pc' = "table"
    /\ UNCHANGED <<response, table, top5, last_top5, out, err, prev_table, stop, projection>>

\* thread::sleep, then the end of the loop body; the document stays as it is
SleepUnchanged ==
    /\ pc = "sleep"
    /\ pc' = "fetch"
    /\ medals' = <<>>
    /\ table' = <<>>
    /\ top5' = None
    /\ out' = <<>>
    /\ UNCHANGED <<response, last_top5, err, prev_table, stop, projection>>

NextUnchanged ==
    \/ FetchUnchanged
    \/ CreateTable
    \/ TakeTop5
    \/ Compare
    \/ Emit
    \/ Store
    \/ SleepUnchanged

SpecUnchanged == InitUnchanged /\ [][NextUnchanged]_vars

----------------------------------------------------------------------------
(* create_table on its own: any award list, ranked twice *)

Types == {"Gold", "Silver", "Bronze"}

TableCountries == {"A", "B", "C"}

\* longest award list given to create_table on its own
MaxTableLen == 3

\* [(Gold, "A"), (Gold, "B"), (Silver, "A"), (Gold, "A")]
Example ==
    << [type |-> "Gold", country |-> "A"],   [type |-> "Gold", country |-> "B"],
       [type |-> "Silver", country |-> "A"], [type |-> "Gold", country |-> "A"] >>

TableInputs ==
    SeqsUpTo([type : Types, country : TableCountries], MaxTableLen)
        \cup {fetch_medals(raw) : raw \in SeasonFeeds}
        \cup {Example}

InitTable ==
    /\ pc = "call"
    /\ response = <<>>
    /\ medals \in TableInputs
    /\ table = <<>>
    /\ top5 = None
    /\ last_top5 = InitialLastTop5
    /\ out = <<>>
    /\ err = "none"
    /\ prev_table = None
    /\ stop = FALSE
    /\ projection = <<>>

\* create_table(&medals)
TableCall == CreateTableAt("call", "recall")

\* create_table(&medals) once more, on the same medals
TableRecall == CreateTableAt("recall", "ranked")

----------------------------------------------------------------------------
(* tests::AthleticsDb::get_medals_per_country, from the (class, country)     *)
(* tuples on                                                                 *)

\* MedalCount::default()
DefaultMedalCount == [g |-> 0, s |-> 0, b |-> 0]

\* acc.entry(country).or_insert(MedalCount::default())[class] += 1, with
\* IndexMut<Class> for MedalCount
group_by_country(acc, x) ==
    LET entry == IF x.country \in DOMAIN acc THEN acc[x.country] ELSE DefaultMedalCount
        counted == CASE x.type = "Gold" -> [entry EXCEPT !.g = @ + 1]
                     [] x.type = "Silver" -> [entry EXCEPT !.s = @ + 1]
                     [] x.type = "Bronze" -> [entry EXCEPT !.b = @ + 1]
    IN  [c \in DOMAIN acc \cup {x.country} |-> IF c = x.country THEN counted ELSE acc[c]]

RECURSIVE Fold(_, _)
\* .fold(HashMap::new(), group_by_country), HashMap::new() being acc at the start
Fold(acc, xs) ==
    IF xs = <<>> THEN acc
    ELSE Fold(group_by_country(acc, Head(xs)), Tail(xs))

\* the derived Ord of MedalCount { g, s, b }: field by field, in that order
MedalCountLess(m1, m2) ==
    \/ m1.g < m2.g
    \/ m1.g = m2.g /\ m1.s < m2.s
    \/ m1.g = m2.g /\ m1.s = m2.s /\ m1.b < m2.b

RECURSIVE InsertByCmp(_, _)
\* e put into the sequence s sorted by |a, b| b.1.cmp(&a.1): in front of the
\* elements it compares Less to (those with a smaller MedalCount), behind the rest
InsertByCmp(s0, e0) ==
    CHOOSE r \in
        { IF s = <<>> THEN <<e>>
          ELSE IF MedalCountLess(s[Len(s)][2], e[2])
               THEN Append(InsertByCmp(SubSeq(s, 1, Len(s) - 1), e), s[Len(s)])
               ELSE Append(s, e)
          : s \in {s0}, e \in {e0} } : TRUE

RECURSIVE sort_by(_)
\* medals_per_country.sort_by(|a, b| b.1.cmp(&a.1)): stable
sort_by(s0) ==
    CHOOSE r \in
        { IF s = <<>> THEN <<>>
          ELSE InsertByCmp(sort_by(SubSeq(s, 1, Len(s) - 1)), s[Len(s)])
          : s \in {s0} } : TRUE

\* get_medals_per_country for one iteration order of the folded map
get_medals_per_country(xs, order) ==
    sort_by([i \in 1..Len(order) |-> <<order[i], Fold(<<>>, xs)[order[i]]>>])

\* db.get_medals_per_country(), on the award list create_table has ranked
GetMedalsPerCountry ==
    /\ pc = "ranked"
    /\ \E order \in Perms(DOMAIN Fold(<<>>, medals)) :
        projection' = get_medals_per_country(medals, order)
    /\ pc' = "projected"
    /\ UNCHANGED <<response, medals, table, top5, last_top5, out, err, prev_table, stop>>

NextTable ==
    \/ TableCall
    \/ TableRecall
    \/ GetMedalsPerCountry

SpecTable == InitTable /\ [][NextTable]_vars

----------------------------------------------------------------------------
(* What the claims are stated with *)

\* the entrant names of the first TopN entries of a ranking, in ranking order
RankedNames(t) ==
    SubSeq([i \in 1..Len(t) |-> t[i][1]], 1, IF Len(t) > TopN THEN TopN ELSE Len(t))

\* the snapshot of a ranking
Snapshot(t) == Some(RankedNames(t))

\* the snapshot the last completed cycle left behind, None before any has completed
Baseline == IF prev_table = None THEN None ELSE Snapshot(prev_table[1])

\* exact sequence equality: same length, same entrant at every place
SameSequence(a, b) == Len(a) = Len(b) /\ \A i \in 1..Len(a) : a[i] = b[i]

\* the current snapshot is not the previous one (None is no snapshot at all)
Differs(cur, last) == last = None \/ ~SameSequence(cur[1], last[1])

\* how many records of the award list ms have entrant c and medal class t
NumRecords(ms, c, t) ==
    Cardinality({i \in 1..Len(ms) : ms[i].country = c /\ ms[i].type = t})

\* how many awards of the document raw have entrant c and medalType mt
NumAwards(raw, c, mt) ==
    Cardinality({i \in 1..Len(raw) : CountryOf(raw[i]) = c /\ raw[i].medalType = mt})

RECURSIVE SumCounts(_)
\* the sum of all counts of a table
SumCounts(t) ==
    IF t = <<>> THEN 0
    ELSE t[1][2] + t[1][3] + t[1][4] + SumCounts(Tail(t))

\* a's (gold, silver, bronze) >= b's: gold first, then silver, then bronze
TripleGE(a, b) ==
    \/ a[2] > b[2]
    \/ a[2] = b[2] /\ a[3] > b[3]
    \/ a[2] = b[2] /\ a[3] = b[3] /\ a[4] >= b[4]

\* the cycle has its table / its snapshot
HasTable == pc \in {"top5", "compare", "emit", "store", "sleep"}
HasTop5 == pc \in {"compare", "emit", "store", "sleep"}

\* create_table has returned
Ranked == pc \in {"recall", "ranked"}

----------------------------------------------------------------------------
(* C1: a failed fetch does not end the poller: it prints nothing, leaves     *)
(* last_top5 as the last completed cycle left it, and goes on to sleep.      *)
C1_FetchFailureNotFatal ==
    err = "SourceUnavailable" =>
        /\ pc # "panicked"
        /\ out = <<>>
        /\ last_top5 = Baseline

(* C2: a cycle that completed its fetch prints if and only if its snapshot,  *)
(* the ordered names of the first five of its table, is not the same         *)
(* sequence as last_top5; what it prints is that snapshot.                   *)
C2_EmitsIffSnapshotDiffers ==
    pc = "store" =>
        out = IF Differs(Snapshot(table), last_top5) THEN <<Snapshot(table)>> ELSE <<>>

\* an emission that only a change of order caused
C2_Witness ==
    /\ pc = "store"
    /\ last_top5 = Some(<<"A", "B">>)
    /\ top5 = Some(<<"B", "A">>)
    /\ out = <<top5>>

(* C3: create_table called twice on the same award list returns the same     *)
(* ordered table, ties included.                                             *)
C3_RankingDeterministic == [][pc = "recall" => table' = table]_vars

(* C4: every entry of the table of create_table carries, per medal class,    *)
(* the number of input records of its entrant and that class, and all        *)
(* counts together are as many as there are input records.                   *)
C4_AggregationCorrect ==
    Ranked =>
        /\ \A i \in 1..Len(table) :
            /\ table[i][2] = NumRecords(medals, table[i][1], "Gold")
            /\ table[i][3] = NumRecords(medals, table[i][1], "Silver")
            /\ table[i][4] = NumRecords(medals, table[i][1], "Bronze")
        /\ SumCounts(table) = Len(medals)

\* the example: A = (2, 1, 0), B = (1, 0, 0)
C4_Witness ==
    /\ pc = "ranked"
    /\ medals = Example
    /\ table = << <<"A", 2, 1, 0>>, <<"B", 1, 0, 0>> >>

(* C5: in the table of create_table every entry's (gold, silver, bronze) is  *)
(* >= that of the entry behind it, gold first, then silver, then bronze.     *)
C5_OrderCorrect ==
    Ranked => \A i \in 1..(Len(table) - 1) : TripleGE(table[i], table[i + 1])

\* three entrants, decided by gold, by silver and by bronze
C5_Witness ==
    /\ pc = "ranked"
    /\ Len(table) = 3
    /\ SortKey(table[1]) = <<1, 0, 0>>
    /\ SortKey(table[2]) = <<0, 1, 0>>
    /\ SortKey(table[3]) = <<0, 0, 1>>

C8_MalformedRecordNotFatal ==
    err = "MalformedRecord" =>
        /\ pc # "panicked"
        /\ table = <<>>
        /\ out = <<>>
        /\ last_top5 = Baseline

(* C9: once a cycle has stored, last_top5 is that cycle's snapshot, printed  *)
(* or not; from the start of a cycle up to its store, last_top5 is the       *)
(* snapshot of the last completed cycle.                                     *)
C9_PreviousIsLastCompleted ==
    /\ pc = "sleep" => last_top5 = Snapshot(table)
    /\ pc # "sleep" => last_top5 = Baseline

\* a cycle that stored its snapshot without printing it
C9_Witness ==
    /\ pc = "sleep"
    /\ out = <<>>
    /\ last_top5 = Some(<<"B", "A">>)
    /\ last_top5 = Snapshot(table)

C11_NoTerminalState ==
    [](pc # "panicked") =>
        /\ []<>(pc = "sleep")
        /\ []<>(pc = "fetch")
        /\ [](pc = "sleep" => <>(pc = "fetch"))

\* a later cycle has slept and the poller is about to fetch once more
C11_Witness ==
    /\ pc = "fetch"
    /\ prev_table # None
    /\ last_top5 # None
    /\ err = "none"

(* C12: the table of create_table lists every entrant of the award list     *)
(* exactly once and nobody else: it is as long as there are distinct         *)
(* entrants, however many these are.                                         *)
C12_NoTruncationNoDuplication ==
    Ranked =>
        LET entrants == {medals[j].country : j \in 1..Len(medals)}
            listed == {table[i][1] : i \in 1..Len(table)}
        IN  /\ listed = entrants
            /\ Len(table) = Cardinality(entrants)

\* six entrants, six entries
C12_Witness ==
    /\ pc = "ranked"
    /\ Cardinality({medals[j].country : j \in 1..Len(medals)}) = TopN + 1
    /\ Len(table) = TopN + 1

(* C13: the snapshot is Some of the names of the first five entries of the   *)
(* table, in table order: min(5, number of entrants) names of entrants of    *)
(* the document, and nothing but names.                                      *)
C13_SnapshotFormation ==
    HasTop5 =>
        LET entrants == {CountryOf(response[j]) : j \in 1..Len(response)}
        IN  /\ top5 # None
            /\ Len(top5[1]) = (IF Cardinality(entrants) < 5 THEN Cardinality(entrants) ELSE 5)
            /\ \A i \in 1..Len(top5[1]) :
                /\ top5[1][i] = table[i][1]
                /\ top5[1][i] \in entrants

\* six entrants, the snapshot holds five of them
C13_Witness ==
    /\ pc = "compare"
    /\ Len(table) = 6
    /\ Len(top5[1]) = 5

(* C14: while the feed serves the same award list, no cycle after the first  *)
(* prints anything, ties among the entrants or not.                          *)
C14_UnchangedFeedSilent ==
    pc = "store" /\ prev_table # None => out = <<>>

\* the steps of a cycle, in the order the loop body takes them
StepOrder ==
    { <<"fetch", "table">>, <<"fetch", "panicked">>, <<"table", "top5">>,
      <<"top5", "compare">>, <<"compare", "emit">>, <<"compare", "store">>,
      <<"emit", "store">>, <<"store", "sleep">>, <<"sleep", "fetch">> }

(* C15: every step of the poller is the next step of the cycle: fetch,       *)
(* table (tally and ranking), snapshot, compare, print if changed, store,    *)
(* sleep, fetch again; a cycle prints at most once, in its print step, and   *)
(* a fetch starts only out of the sleep, with the snapshot stored.           *)
C15_CyclesSequential ==
    [][ /\ <<pc, pc'>> \in StepOrder
        /\ Len(out') <= 1
        /\ (out' # out /\ out' # <<>> => pc = "emit")
        /\ (last_top5' # last_top5 => pc = "store")
        /\ (pc' = "fetch" => pc = "sleep" /\ last_top5 = top5 /\ top5 # None) ]_vars

\* a cycle that printed once, stored and is asleep
C15_Witness ==
    /\ pc = "sleep"
    /\ Len(out) = 1
    /\ out[1] = top5
    /\ last_top5 = top5
    /\ prev_table # None

(* C16: a cycle that fetched no award runs like any other: create_table      *)
(* returns the empty table, the snapshot is Some of the empty sequence, it   *)
(* is compared, printed if it is new, stored, and the poller sleeps and      *)
(* fetches again.                                                            *)
C16_EmptyInputNotAnError ==
    [][ medals = <<>> =>
            /\ (pc = "table" => pc' = "top5" /\ table' = <<>>)
            /\ (pc = "top5" => pc' = "compare" /\ top5' = Some(<<>>))
            /\ (pc = "compare" => pc' = (IF last_top5 = Some(<<>>) THEN "store" ELSE "emit"))
            /\ (pc = "emit" => pc' = "store" /\ out' = <<Some(<<>>)>>)
            /\ (pc = "store" => pc' = "sleep" /\ last_top5' = Some(<<>>))
            /\ (pc = "sleep" => pc' = "fetch" /\ err' = "none") ]_vars

\* a cycle without any award that printed the empty snapshot, stored it and sleeps
C16_Witness ==
    /\ pc = "sleep"
    /\ response = <<>>
    /\ medals = <<>>
    /\ table = <<>>
    /\ out = <<Some(<<>>)>>
    /\ last_top5 = Some(<<>>)
    /\ prev_table = Some(<<>>)

(* C17: once the poller has been asked to stop it starts no further fetch.   *)
C17_StopHonoured ==
    [][stop => ~(pc = "fetch" /\ pc' # "fetch")]_vars

\* no two entries of the table have the same (gold, silver, bronze)
NoTies(t) ==
    \A i, j \in 1..Len(t) : i # j => SortKey(t[i]) # SortKey(t[j])

(* C18: when no two entrants have the same (gold, silver, bronze), the       *)
(* table of create_table and the projection of get_medals_per_country list   *)
(* the entrants in the same order.                                           *)
C18_RankersAgreeWithoutTies ==
    pc = "projected" /\ NoTies(table) =>
        /\ Len(projection) = Len(table)
        /\ \A i \in 1..Len(table) : projection[i][1] = table[i][1]

\* three entrants with three different triples, ranked alike by both
C18_Witness ==
    /\ pc = "projected"
    /\ Len(table) = 3
    /\ NoTies(table)
    /\ \A i \in 1..3 : projection[i][1] = table[i][1]

====
